---- MODULE Spec2Model ----
(***************************************************************************)
(* The CTA strategy template of examples/strategy_example.py (CtaTemplate, *)
(* DoubleMaStrategy, GridStrategy) and the simplified backtest driver of   *)
(* examples/backtesting_example.py (BacktestingExample).                   *)
(*                                                                         *)
(* Numbers.  Prices and volumes are Python floats in the source.  The      *)
(* model keeps them as integers: a price is a whole number of currency     *)
(* units (every price of the examples is integer valued), a volume is a    *)
(* whole number of lots.  A moving average sum/window is kept as the exact *)
(* fraction [num, den].  Timestamps of bars are minutes since the epoch of *)
(* the model (day d starts at minute d * MinutesPerDay).                   *)
(***************************************************************************)
EXTENDS Integers, Sequences, FiniteSets, TLC

VARIABLES
    self,       \* the strategy object: a record of its attributes
    clock,      \* the latest reading of the wall clock, datetime.now().timestamp()
    orderids,   \* every order id _send_order has returned so far
    op,         \* the operation that ran last
    ret,        \* what it returned ("" for None and for the empty order id)
    exc,        \* the exception it raised, "" when it returned
    sent,       \* the orders it handed to _send_order, in order
    submitted,  \* the calls of buy, sell, short and cover made in it, accepted or not
    cancels,    \* the cancel requests made in it that got past the trading guard
    started,    \* history: on_start has been called on the object
    trail,      \* history: the order calls of the object's on_bar calls, summed up
    book,       \* history: the orders accepted so far, each with its fill and its cancel
    ledger,     \* history: per subscribed symbol, the signed sum of the trades delivered
    pc,         \* BacktestingExample: position in run_*_backtest
    params,     \* BacktestingExample: start, end and oscillating of the run
    gen,        \* generate_sample_bars: its locals bars, current_dt, base_price, i
    idx,        \* run_simplified_backtest: bars dispatched so far
    events,     \* BacktestingExample: the calls made on the strategy, in order
    stats       \* BacktestingExample: calculate_simple_stats' result

vars == <<self, clock, orderids, op, ret, exc, sent, submitted, cancels, started, trail, book, ledger,
          pc, params, gen, idx, events, stats>>

strategyVars == <<self, clock, orderids, op, ret, exc, sent, submitted, cancels, started>>
\* the variables of BacktestingExample, and the histories only some
\* specifications keep
driverVars == <<pc, params, gen, idx, events, stats, trail, book>>

----------------------------------------------------------------------------
(* Bounds of the model *)

MaxPrice == 2       \* prices of ticks, bars, trades and direct order calls: 1..MaxPrice
MaxVolume == 1      \* volumes of trades and direct order calls: up to MaxVolume
MaxPos == 1         \* on_trade is explored while every |position| <= MaxPos
MaxClock == 1       \* wall clock readings: 0..MaxClock
MaxDays == 1        \* start and end day of a backtest: 0..MaxDays
MaxBars == 3        \* bars of a series handed to run_simplified_backtest by a caller
MaxClose == 3       \* closes of the bars a DoubleMaStrategy is fed one by one: 1..MaxClose
MaxBook == 2        \* orders accepted while fills are followed
SmallFast == 1      \* fast_window of the strategy driven by the engine
SmallGrid == 2      \* grid_num of the strategy driven by the engine

SmallSlow == SmallFast + 1

Prices == 1..MaxPrice
Volumes == 1..MaxVolume
CallVolumes == (0 - 1)..MaxVolume      \* a caller may pass any number as volume
ClockSteps == 0..1                     \* the clock between two readings: same value, or later

MinutesPerDay == 1440

Classes == {"CtaTemplate", "DoubleMaStrategy", "GridStrategy"}
OrderCalls == {"buy", "sell", "short", "cover"}
StrategyTypes == {"spot", "futures"}
Directions == {"long", "short"}
Offsets == {"open", "close"}
Symbols == {"BTCUSDT", "ETHUSDT"}
Exchange == "BINANCE"

----------------------------------------------------------------------------
(* Python conversions *)

\* f"{symbol}.{exchange}"
VtSymbol(symbol, exchange) == symbol \o "." \o exchange

\* str(x) of a float x with an integer value: "49900.0", "-1.0", "0.0"
str(x) == ToString(x) \o ".0"

\* f"order_{t}"
OrderId(t) == "order_" \o ToString(t)

\* dict: d[k] = v, k in d
DictSet(d, k, v) == (k :> v) @@ d
DictHas(d, k) == k \in DOMAIN d
EmptyDict == <<>>

abs(x) == IF x < 0 THEN 0 - x ELSE x

----------------------------------------------------------------------------
(* CtaTemplate *)

\* What a method runs on: the object, the clock and what the call has
\* produced so far.  adv holds, for each coming reading of the clock, by how
\* much the clock has advanced since the reading before it; past its end the
\* clock has not advanced.
Frame(s, c, adv) ==
    [self |-> s, clock |-> c, adv |-> adv, sent |-> <<>>, calls |-> <<>>, cancels |-> <<>>,
     ret |-> "", exc |-> ""]

\* __init__ that leaves the object trading
CtaTemplate_init_trading(strategy_name, vt_symbols, strategy_type) ==
    [ cls |-> "CtaTemplate",
      strategy_name |-> strategy_name,
      vt_symbols |-> vt_symbols,
      strategy_type |-> strategy_type,
      inited |-> FALSE,
      trading |-> TRUE,
      positions |-> [s \in {vt_symbols[k] : k \in DOMAIN vt_symbols} |-> 0] ]

CtaTemplate_init(strategy_name, vt_symbols, strategy_type) ==
    [ cls |-> "CtaTemplate",
      strategy_name |-> strategy_name,
      vt_symbols |-> vt_symbols,
      strategy_type |-> strategy_type,
      inited |-> FALSE,
      trading |-> FALSE,
      positions |-> [s \in {vt_symbols[k] : k \in DOMAIN vt_symbols} |-> 0] ]

CtaTemplate_on_init(st) == st
CtaTemplate_on_start(st) == st
CtaTemplate_on_stop(st) == st
CtaTemplate_on_tick(st, tick) == st
CtaTemplate_on_bar(st, bar) == st

\* on_trade that takes every short trade as an opening one
CtaTemplate_on_trade_short_opens(st, trade) ==
    LET vt_symbol == VtSymbol(trade.symbol, trade.exchange)
        delta == IF trade.direction = "long"
                 THEN (IF trade.offset = "open" THEN trade.volume ELSE 0 - trade.volume)
                 ELSE 0 - trade.volume
    IN  IF vt_symbol \notin DOMAIN st.self.positions
        THEN [st EXCEPT !.exc = "KeyError"]
        ELSE [st EXCEPT !.self.positions[vt_symbol] = @ + delta]

\* self.positions[vt_symbol] += / -= volume; a symbol that is no key raises KeyError
CtaTemplate_on_trade(st, trade) ==
    LET vt_symbol == VtSymbol(trade.symbol, trade.exchange)
        pos == st.self.positions
        delta == IF trade.direction = "long"
                 THEN (IF trade.offset = "open" THEN trade.volume ELSE 0 - trade.volume)
                 ELSE (IF trade.offset = "open" THEN 0 - trade.volume ELSE trade.volume)
    IN  IF vt_symbol \notin DOMAIN pos
        THEN [st EXCEPT !.exc = "KeyError"]
        ELSE [st EXCEPT !.self.positions[vt_symbol] = @ + delta]

send_order(st, vt_symbol, price, volume, direction, offset) ==
    LET t == st.clock + (IF st.adv = <<>> THEN 0 ELSE Head(st.adv))
        orderid == OrderId(t)
    IN  [st EXCEPT !.clock = t,
                   !.adv = IF @ = <<>> THEN @ ELSE Tail(@),
                   !.sent = Append(@, [vt_symbol |-> vt_symbol, price |-> price,
                                       volume |-> volume, direction |-> direction,
                                       offset |-> offset, orderid |-> orderid]),
                   !.ret = orderid]

\* The frame once name(vt_symbol, price, volume) has been called in it; pos is
\* the position of vt_symbol the object holds as the call is made.
Called(st, name, vt_symbol, price, volume) ==
    [st EXCEPT !.calls = Append(@, [name |-> name, vt_symbol |-> vt_symbol,
                                    price |-> price, volume |-> volume,
                                    pos |-> IF vt_symbol \in DOMAIN st.self.positions
                                            THEN st.self.positions[vt_symbol] ELSE 0])]

\* buy without its trading guard
buy_unguarded(st, vt_symbol, price, volume) ==
    send_order(Called(st, "buy", vt_symbol, price, volume),
               vt_symbol, price, volume, "long", "open")

buy(st, vt_symbol, price, volume) ==
    LET st0 == Called(st, "buy", vt_symbol, price, volume)
    IN  IF ~st0.self.trading
        THEN [st0 EXCEPT !.ret = ""]
        ELSE send_order(st0, vt_symbol, price, volume, "long", "open")

sell(st, vt_symbol, price, volume) ==
    LET st0 == Called(st, "sell", vt_symbol, price, volume)
    IN  IF ~st0.self.trading
        THEN [st0 EXCEPT !.ret = ""]
        ELSE send_order(st0, vt_symbol, price, volume, "short",
                        IF st0.self.strategy_type = "futures" THEN "close" ELSE "open")

\* short without its spot guard
short_on_spot(st, vt_symbol, price, volume) ==
    LET st0 == Called(st, "short", vt_symbol, price, volume)
    IN  IF ~st0.self.trading
        THEN [st0 EXCEPT !.ret = ""]
        ELSE send_order(st0, vt_symbol, price, volume, "short", "open")

short(st, vt_symbol, price, volume) ==
    LET st0 == Called(st, "short", vt_symbol, price, volume)
    IN  IF st0.self.strategy_type = "spot"
        THEN [st0 EXCEPT !.ret = ""]
        ELSE IF ~st0.self.trading
             THEN [st0 EXCEPT !.ret = ""]
             ELSE send_order(st0, vt_symbol, price, volume, "short", "open")

cover(st, vt_symbol, price, volume) ==
    LET st0 == Called(st, "cover", vt_symbol, price, volume)
    IN  IF st0.self.strategy_type = "spot"
        THEN [st0 EXCEPT !.ret = ""]
        ELSE IF ~st0.self.trading
             THEN [st0 EXCEPT !.ret = ""]
             ELSE send_order(st0, vt_symbol, price, volume, "long", "close")

\* Both return at once while not trading; past the guard they write a log line
\* and nothing else: the call to the engine is a comment in the source.
cancel_order(st, vt_orderid) ==
    IF ~st.self.trading THEN st ELSE [st EXCEPT !.cancels = Append(@, vt_orderid)]

cancel_all(st) ==
    IF ~st.self.trading THEN st ELSE [st EXCEPT !.cancels = Append(@, "all")]

get_pos(s, vt_symbol) ==
    IF vt_symbol \in DOMAIN s.positions THEN s.positions[vt_symbol] ELSE 0

----------------------------------------------------------------------------
(* DoubleMaStrategy *)

Zero == [num |-> 0, den |-> 1]
\* a / b of two numbers, kept exact
Ratio(a, b) == [num |-> a, den |-> b]
\* x > y and x < y of two fractions with positive denominators
Greater(x, y) == x.num * y.den > y.num * x.den
Less(x, y) == x.num * y.den < y.num * x.den

\* seq[-n:] for n > 0
LastN(seq, n) == IF n >= Len(seq) THEN seq ELSE SubSeq(seq, Len(seq) - n + 1, Len(seq))

RECURSIVE SumClose(_)
\* sum(b['close'] for b in data)
SumClose(data) == IF data = <<>> THEN 0 ELSE Head(data).close + SumClose(Tail(data))

DoubleMaStrategy_init(strategy_name, vt_symbols, fast_window, slow_window, fixed_size) ==
    [ cls |-> "DoubleMaStrategy",
      fast_window |-> fast_window,
      slow_window |-> slow_window,
      fixed_size |-> fixed_size,
      fast_ma |-> Zero,
      slow_ma |-> Zero,
      ma_trend |-> 0,
      bars |-> <<>> ]
    @@ CtaTemplate_init(strategy_name, vt_symbols, "spot")

DoubleMaStrategy_on_init(st) == [st EXCEPT !.self.inited = TRUE]
\* on_start that only writes its log line
DoubleMaStrategy_on_start_log_only(st) == st

DoubleMaStrategy_on_start(st) == [st EXCEPT !.self.trading = TRUE]
DoubleMaStrategy_on_stop(st) == [st EXCEPT !.self.trading = FALSE]

calculate_ma(s) ==
    IF Len(s.bars) < s.slow_window
    THEN s
    ELSE [s EXCEPT !.fast_ma = Ratio(SumClose(LastN(s.bars, s.fast_window)), s.fast_window),
                   !.slow_ma = Ratio(SumClose(LastN(s.bars, s.slow_window)), s.slow_window)]

\* on_bar without its warm-up: it takes the averages of the bars it has,
\* divided by the windows, from the first bar on
DoubleMaStrategy_on_bar_no_warm_up(st, bar) ==
    LET appended == Append(st.self.bars, bar)
        kept == IF Len(appended) > st.self.slow_window * 2 THEN Tail(appended) ELSE appended
        st2 == [st EXCEPT !.self.bars = kept,
                          !.self.fast_ma = Ratio(SumClose(LastN(kept, st.self.fast_window)),
                                                 st.self.fast_window),
                          !.self.slow_ma = Ratio(SumClose(LastN(kept, st.self.slow_window)),
                                                 st.self.slow_window)]
        vt_symbol == VtSymbol(bar.symbol, bar.exchange)
        pos == get_pos(st2.self, vt_symbol)
    IN  IF Greater(st2.self.fast_ma, st2.self.slow_ma)
        THEN IF st2.self.ma_trend # 1
             THEN LET st3 == [st2 EXCEPT !.self.ma_trend = 1]
                  IN  IF pos <= 0
                      THEN buy(st3, vt_symbol, bar.close, st3.self.fixed_size)
                      ELSE st3
             ELSE st2
        ELSE IF Less(st2.self.fast_ma, st2.self.slow_ma)
             THEN IF st2.self.ma_trend # 0 - 1
                  THEN LET st3 == [st2 EXCEPT !.self.ma_trend = 0 - 1]
                       IN  IF pos > 0
                           THEN sell(st3, vt_symbol, bar.close, abs(pos))
                           ELSE st3
                  ELSE st2
             ELSE st2

\* on_bar that drops the bar it has just appended (pop() for pop(0)) when the
\* history is full
DoubleMaStrategy_on_bar_drops_newest(st, bar) ==
    LET appended == Append(st.self.bars, bar)
        kept == IF Len(appended) > st.self.slow_window * 2
                THEN SubSeq(appended, 1, Len(appended) - 1) ELSE appended
        st1 == [st EXCEPT !.self.bars = kept]
    IN  IF Len(kept) < st.self.slow_window
        THEN st1
        ELSE LET st2 == [st1 EXCEPT !.self = calculate_ma(@)]
                 vt_symbol == VtSymbol(bar.symbol, bar.exchange)
                 pos == get_pos(st2.self, vt_symbol)
             IN  IF Greater(st2.self.fast_ma, st2.self.slow_ma)
                 THEN IF st2.self.ma_trend # 1
                      THEN LET st3 == [st2 EXCEPT !.self.ma_trend = 1]
                           IN  IF pos <= 0
                               THEN buy(st3, vt_symbol, bar.close, st3.self.fixed_size)
                               ELSE st3
                      ELSE st2
                 ELSE IF Less(st2.self.fast_ma, st2.self.slow_ma)
                      THEN IF st2.self.ma_trend # 0 - 1
                           THEN LET st3 == [st2 EXCEPT !.self.ma_trend = 0 - 1]
                                IN  IF pos > 0
                                    THEN sell(st3, vt_symbol, bar.close, abs(pos))
                                    ELSE st3
                           ELSE st2
                      ELSE st2

\* on_bar that buys without looking at the position
DoubleMaStrategy_on_bar_buys_when_long(st, bar) ==
    LET appended == Append(st.self.bars, bar)
        kept == IF Len(appended) > st.self.slow_window * 2 THEN Tail(appended) ELSE appended
        st1 == [st EXCEPT !.self.bars = kept]
    IN  IF Len(kept) < st.self.slow_window
        THEN st1
        ELSE LET st2 == [st1 EXCEPT !.self = calculate_ma(@)]
                 vt_symbol == VtSymbol(bar.symbol, bar.exchange)
                 pos == get_pos(st2.self, vt_symbol)
             IN  IF Greater(st2.self.fast_ma, st2.self.slow_ma)
                 THEN IF st2.self.ma_trend # 1
                      THEN buy([st2 EXCEPT !.self.ma_trend = 1],
                               vt_symbol, bar.close, st2.self.fixed_size)
                      ELSE st2
                 ELSE IF Less(st2.self.fast_ma, st2.self.slow_ma)
                      THEN IF st2.self.ma_trend # 0 - 1
                           THEN LET st3 == [st2 EXCEPT !.self.ma_trend = 0 - 1]
                                IN  IF pos > 0
                                    THEN sell(st3, vt_symbol, bar.close, abs(pos))
                                    ELSE st3
                           ELSE st2
                      ELSE st2

\* on_bar that buys on every bar with fast_ma > slow_ma, whatever ma_trend is
DoubleMaStrategy_on_bar_ignores_trend(st, bar) ==
    LET appended == Append(st.self.bars, bar)
        kept == IF Len(appended) > st.self.slow_window * 2 THEN Tail(appended) ELSE appended
        st1 == [st EXCEPT !.self.bars = kept]
    IN  IF Len(kept) < st.self.slow_window
        THEN st1
        ELSE LET st2 == [st1 EXCEPT !.self = calculate_ma(@)]
                 vt_symbol == VtSymbol(bar.symbol, bar.exchange)
                 pos == get_pos(st2.self, vt_symbol)
             IN  IF Greater(st2.self.fast_ma, st2.self.slow_ma)
                 THEN LET st3 == [st2 EXCEPT !.self.ma_trend = 1]
                      IN  IF pos <= 0
                          THEN buy(st3, vt_symbol, bar.close, st3.self.fixed_size)
                          ELSE st3
                 ELSE IF Less(st2.self.fast_ma, st2.self.slow_ma)
                      THEN IF st2.self.ma_trend # 0 - 1
                           THEN LET st3 == [st2 EXCEPT !.self.ma_trend = 0 - 1]
                                IN  IF pos > 0
                                    THEN sell(st3, vt_symbol, bar.close, abs(pos))
                                    ELSE st3
                           ELSE st2
                      ELSE st2

DoubleMaStrategy_on_bar(st, bar) ==
    LET appended == Append(st.self.bars, bar)
        kept == IF Len(appended) > st.self.slow_window * 2 THEN Tail(appended) ELSE appended
        st1 == [st EXCEPT !.self.bars = kept]
    IN  IF Len(kept) < st.self.slow_window
        THEN st1
        ELSE LET st2 == [st1 EXCEPT !.self = calculate_ma(@)]
                 vt_symbol == VtSymbol(bar.symbol, bar.exchange)
                 pos == get_pos(st2.self, vt_symbol)
             IN  IF Greater(st2.self.fast_ma, st2.self.slow_ma)
                 THEN IF st2.self.ma_trend # 1
                      THEN LET st3 == [st2 EXCEPT !.self.ma_trend = 1]
                           IN  IF pos <= 0
                               THEN buy(st3, vt_symbol, bar.close, st3.self.fixed_size)
                               ELSE st3
                      ELSE st2
                 ELSE IF Less(st2.self.fast_ma, st2.self.slow_ma)
                      THEN IF st2.self.ma_trend # 0 - 1
                           THEN LET st3 == [st2 EXCEPT !.self.ma_trend = 0 - 1]
                                IN  IF pos > 0
                                    THEN sell(st3, vt_symbol, bar.close, abs(pos))
                                    ELSE st3
                           ELSE st2
                      ELSE st2

----------------------------------------------------------------------------
(* GridStrategy *)

GridStrategy_init(strategy_name, vt_symbols, grid_size, grid_num, order_size) ==
    [ cls |-> "GridStrategy",
      grid_size |-> grid_size,
      grid_num |-> grid_num,
      order_size |-> order_size,
      buy_orders |-> EmptyDict,
      sell_orders |-> EmptyDict,
      last_price |-> 0 ]
    @@ CtaTemplate_init(strategy_name, vt_symbols, "spot")

GridStrategy_on_init(st) == [st EXCEPT !.self.inited = TRUE]
GridStrategy_on_start(st) == [st EXCEPT !.self.trading = TRUE]
\* on_stop that clears the trading flag before it calls cancel_all
GridStrategy_on_stop_flag_first(st) == cancel_all([st EXCEPT !.self.trading = FALSE])

GridStrategy_on_stop(st) == [cancel_all(st) EXCEPT !.self.trading = FALSE]

\* the buy order of one level, stored without the `if orderid` test
PlaceBuy_unchecked(st, vt_symbol, buy_price) ==
    IF DictHas(st.self.buy_orders, str(buy_price))
    THEN st
    ELSE LET st1 == buy(st, vt_symbol, buy_price, st.self.order_size)
         IN  [st1 EXCEPT !.self.buy_orders = DictSet(@, str(buy_price), st1.ret)]

\* if orderid: self.buy_orders[str(buy_price)] = orderid
PlaceBuy(st, vt_symbol, buy_price) ==
    IF DictHas(st.self.buy_orders, str(buy_price))
    THEN st
    ELSE LET st1 == buy(st, vt_symbol, buy_price, st.self.order_size)
         IN  IF st1.ret # ""
             THEN [st1 EXCEPT !.self.buy_orders = DictSet(@, str(buy_price), st1.ret)]
             ELSE st1

\* the sell order of one level, sent and not stored
PlaceSell_untracked(st, vt_symbol, sell_price) ==
    IF DictHas(st.self.sell_orders, str(sell_price))
    THEN st
    ELSE sell(st, vt_symbol, sell_price, st.self.order_size)

PlaceSell(st, vt_symbol, sell_price) ==
    IF DictHas(st.self.sell_orders, str(sell_price))
    THEN st
    ELSE LET st1 == sell(st, vt_symbol, sell_price, st.self.order_size)
         IN  IF st1.ret # ""
             THEN [st1 EXCEPT !.self.sell_orders = DictSet(@, str(sell_price), st1.ret)]
             ELSE st1

RECURSIVE BuyLoop(_, _, _, _)
\* for i in range(i, self.grid_num + 1): the buy orders below current_price
BuyLoop(st, vt_symbol, current_price, i) ==
    IF i > st.self.grid_num
    THEN st
    ELSE BuyLoop(PlaceBuy(st, vt_symbol, current_price - i * st.self.grid_size),
                 vt_symbol, current_price, i + 1)

RECURSIVE SellLoop(_, _, _, _)
\* for i in range(i, self.grid_num + 1): the sell orders above current_price
SellLoop(st, vt_symbol, current_price, i) ==
    IF i > st.self.grid_num
    THEN st
    ELSE SellLoop(PlaceSell(st, vt_symbol, current_price + i * st.self.grid_size),
                  vt_symbol, current_price, i + 1)

check_grid_orders(st, tick) ==
    LET vt_symbol == VtSymbol(tick.symbol, tick.exchange)
        current_price == tick.last_price
    IN  SellLoop(BuyLoop(st, vt_symbol, current_price, 1), vt_symbol, current_price, 1)

GridStrategy_on_tick(st, tick) ==
    check_grid_orders([st EXCEPT !.self.last_price = tick.last_price], tick)

\* on_trade that places the reverse order before it updates the position
GridStrategy_on_trade_order_first(st, trade) ==
    LET vt_symbol == VtSymbol(trade.symbol, trade.exchange)
        st1 == IF trade.direction = "long"
               THEN sell(st, vt_symbol, trade.price + st.self.grid_size, trade.volume)
               ELSE buy(st, vt_symbol, trade.price - st.self.grid_size, trade.volume)
    IN  CtaTemplate_on_trade(st1, trade)

GridStrategy_on_trade(st, trade) ==
    LET st1 == CtaTemplate_on_trade(st, trade)
        vt_symbol == VtSymbol(trade.symbol, trade.exchange)
    IN  IF st1.exc # ""
        THEN st1
        ELSE IF trade.direction = "long"
             THEN sell(st1, vt_symbol, trade.price + st1.self.grid_size, trade.volume)
             ELSE buy(st1, vt_symbol, trade.price - st1.self.grid_size, trade.volume)

----------------------------------------------------------------------------
(* The method a call reaches, by the class of the object *)

on_init(st) ==
    CASE st.self.cls = "DoubleMaStrategy" -> DoubleMaStrategy_on_init(st)
      [] st.self.cls = "GridStrategy" -> GridStrategy_on_init(st)
      [] OTHER -> CtaTemplate_on_init(st)

on_start(st) ==
    CASE st.self.cls = "DoubleMaStrategy" -> DoubleMaStrategy_on_start(st)
      [] st.self.cls = "GridStrategy" -> GridStrategy_on_start(st)
      [] OTHER -> CtaTemplate_on_start(st)

on_stop(st) ==
    CASE st.self.cls = "DoubleMaStrategy" -> DoubleMaStrategy_on_stop(st)
      [] st.self.cls = "GridStrategy" -> GridStrategy_on_stop(st)
      [] OTHER -> CtaTemplate_on_stop(st)

on_tick(st, tick) ==
    IF st.self.cls = "GridStrategy" THEN GridStrategy_on_tick(st, tick)
    ELSE CtaTemplate_on_tick(st, tick)

on_bar(st, bar) ==
    IF st.self.cls = "DoubleMaStrategy" THEN DoubleMaStrategy_on_bar(st, bar)
    ELSE CtaTemplate_on_bar(st, bar)

on_trade(st, trade) ==
    IF st.self.cls = "GridStrategy" THEN GridStrategy_on_trade(st, trade)
    ELSE CtaTemplate_on_trade(st, trade)

----------------------------------------------------------------------------
(* A call on the strategy object, as one step *)

\* How many times a call of `name` on s can read the clock: once for each
\* order it can send, none while the trading guard (or the spot guard) returns first.
Reads(s, name) ==
    CASE ~s.trading -> 0
      [] name = "on_tick" /\ s.cls = "GridStrategy" -> 2 * s.grid_num
      [] name = "on_trade" /\ s.cls = "GridStrategy" -> 1
      [] name = "on_bar" /\ s.cls = "DoubleMaStrategy" -> 1
      [] name \in {"buy", "sell"} -> 1
      [] name \in {"short", "cover"} /\ s.strategy_type # "spot" -> 1
      [] OTHER -> 0

Advances(n) == [1..n -> ClockSteps]

\* The frame a call starts in.
Enter(adv) == Frame(self, clock, adv)

\* What the on_bar calls of a DoubleMaStrategy have done so far: last is the
\* order method called in the latest on_bar that called one, prev the one called
\* in the latest on_bar ("" for none), and flipped tells that since `last` an
\* on_bar has set ma_trend to the opposite side (to -1 on fast_ma < slow_ma
\* after a buy, to 1 on fast_ma > slow_ma after a sell); again tells that the
\* latest on_bar called the method that was `last` before it.
NoTrail == [last |-> "", prev |-> "", flipped |-> FALSE, again |-> FALSE]

\* The trail after the call `name` on s ended in frame st.
Trailed(t, name, s, st) ==
    IF name # "on_bar" \/ s.cls # "DoubleMaStrategy"
    THEN t
    ELSE LET made == IF st.calls = <<>> THEN "" ELSE st.calls[1].name
             now == st.self
             down == /\ now.ma_trend = 0 - 1 /\ s.ma_trend # 0 - 1
                     /\ Less(now.fast_ma, now.slow_ma)
             up == /\ now.ma_trend = 1 /\ s.ma_trend # 1
                   /\ Greater(now.fast_ma, now.slow_ma)
         IN  [last |-> IF made # "" THEN made ELSE t.last,
              prev |-> made,
              again |-> (made # "" /\ made = t.last),
              flipped |-> IF made # "" THEN FALSE
                          ELSE t.flipped \/ (t.last = "buy" /\ down) \/ (t.last = "sell" /\ up)]

\* The call ended in frame st, returning result.
Leave(name, st, result) ==
    /\ st.clock <= MaxClock
    /\ self' = st.self
    /\ clock' = st.clock
    /\ orderids' = orderids \cup {st.sent[k].orderid : k \in DOMAIN st.sent}
    /\ op' = name
    /\ ret' = result
    /\ exc' = st.exc
    /\ sent' = st.sent
    /\ submitted' = st.calls
    /\ cancels' = st.cancels
    /\ started' = (started \/ name = "on_start")

SubscribedSymbols(s) == {sym \in Symbols : \E k \in DOMAIN s.vt_symbols : s.vt_symbols[k] = VtSymbol(sym, Exchange)}

Tick(symbol, price) == [symbol |-> symbol, exchange |-> Exchange, last_price |-> price]

\* a bar whose high and low are exchanged
Bar_high_below_low(symbol, dt, close, volume) ==
    [symbol |-> symbol, exchange |-> Exchange, datetime |-> dt, interval |-> "1m",
     open |-> close - 5, high |-> close - 10, low |-> close + 10, close |-> close,
     volume |-> volume]

Bar(symbol, dt, close, volume) ==
    [symbol |-> symbol, exchange |-> Exchange, datetime |-> dt, interval |-> "1m",
     open |-> close - 5, high |-> close + 10, low |-> close - 10, close |-> close,
     volume |-> volume]

Trade(symbol, direction, offset, price, volume) ==
    [symbol |-> symbol, exchange |-> Exchange, direction |-> direction, offset |-> offset,
     price |-> price, volume |-> volume]

\* The ledger after a trade: +volume for (long, open) and (short, close),
\* -volume for (short, open) and (long, close); trades of other symbols are not kept.
Booked(l, trade) ==
    LET v == VtSymbol(trade.symbol, trade.exchange)
        signed == CASE trade.direction = "long" /\ trade.offset = "open" -> trade.volume
                    [] trade.direction = "short" /\ trade.offset = "close" -> trade.volume
                    [] trade.direction = "short" /\ trade.offset = "open" -> 0 - trade.volume
                    [] trade.direction = "long" /\ trade.offset = "close" -> 0 - trade.volume
    IN  IF v \in DOMAIN l THEN [l EXCEPT ![v] = @ + signed] ELSE l

WithinMaxPos(s) == \A v \in DOMAIN s.positions : abs(s.positions[v]) <= MaxPos

----------------------------------------------------------------------------
(* The strategy driven by an engine: any callback and any order call, in any order *)

BtcOnly == <<VtSymbol("BTCUSDT", Exchange)>>
BtcAndEth == <<VtSymbol("BTCUSDT", Exchange), VtSymbol("ETHUSDT", Exchange)>>

EngineStrategies ==
    {CtaTemplate_init("TPL", BtcAndEth, ty) : ty \in StrategyTypes}
    \cup {DoubleMaStrategy_init("DMA_BTC", BtcOnly, SmallFast, SmallSlow, 1)}
    \cup {GridStrategy_init("GRID_BTC", BtcOnly, 1, SmallGrid, 1)}

NoParams == [run |-> "none", start |-> 0, end |-> 0, oscillating |-> FALSE]
NoGen == [bars |-> <<>>, current_dt |-> 0, base_price |-> 0, i |-> 0]
NoStats == [total_days |-> 0, total_bars |-> 0, fast_ma |-> Zero, slow_ma |-> Zero, position |-> 0]

Constructed(s) ==
    /\ self = s
    /\ clock = 0
    /\ orderids = {}
    /\ op = "__init__"
    /\ ret = ""
    /\ exc = ""
    /\ sent = <<>>
    /\ submitted = <<>>
    /\ cancels = <<>>
    /\ started = FALSE
    /\ trail = NoTrail
    /\ book = <<>>
    /\ ledger = [v \in DOMAIN s.positions |-> 0]

Init ==
    /\ \E s \in EngineStrategies : Constructed(s)
    /\ pc = "engine"
    /\ params = NoParams
    /\ gen = NoGen
    /\ idx = 0
    /\ events = <<>>
    /\ stats = NoStats

OnInit ==
    /\ Leave("on_init", on_init(Enter(<<>>)), "")
    /\ UNCHANGED <<driverVars, ledger>>

OnStart ==
    /\ Leave("on_start", on_start(Enter(<<>>)), "")
    /\ UNCHANGED <<driverVars, ledger>>

OnStop ==
    /\ Leave("on_stop", on_stop(Enter(<<>>)), "")
    /\ UNCHANGED <<driverVars, ledger>>

OnTick ==
    /\ \E symbol \in SubscribedSymbols(self), price \in Prices,
          adv \in Advances(Reads(self, "on_tick")) :
            Leave("on_tick", on_tick(Enter(adv), Tick(symbol, price)), "")
    /\ UNCHANGED <<driverVars, ledger>>

OnBar ==
    /\ \E symbol \in SubscribedSymbols(self), close \in Prices,
          adv \in Advances(Reads(self, "on_bar")) :
            Leave("on_bar", on_bar(Enter(adv), Bar(symbol, 0, close, 0)), "")
    /\ UNCHANGED <<driverVars, ledger>>

OnTrade ==
    /\ \E symbol \in Symbols, direction \in Directions, offset \in Offsets,
          price \in Prices, volume \in Volumes,
          adv \in Advances(Reads(self, "on_trade")) :
            LET trade == Trade(symbol, direction, offset, price, volume)
                st == on_trade(Enter(adv), trade)
            IN  /\ WithinMaxPos(st.self)
                /\ Leave("on_trade", st, "")
                /\ ledger' = Booked(ledger, trade)
    /\ UNCHANGED driverVars

Buy ==
    /\ \E symbol \in SubscribedSymbols(self), price \in Prices, volume \in CallVolumes,
          adv \in Advances(Reads(self, "buy")) :
            LET st == buy(Enter(adv), VtSymbol(symbol, Exchange), price, volume)
            IN  Leave("buy", st, st.ret)
    /\ UNCHANGED <<driverVars, ledger>>

Sell ==
    /\ \E symbol \in SubscribedSymbols(self), price \in Prices, volume \in CallVolumes,
          adv \in Advances(Reads(self, "sell")) :
            LET st == sell(Enter(adv), VtSymbol(symbol, Exchange), price, volume)
            IN  Leave("sell", st, st.ret)
    /\ UNCHANGED <<driverVars, ledger>>

Short ==
    /\ \E symbol \in SubscribedSymbols(self), price \in Prices, volume \in CallVolumes,
          adv \in Advances(Reads(self, "short")) :
            LET st == short(Enter(adv), VtSymbol(symbol, Exchange), price, volume)
            IN  Leave("short", st, st.ret)
    /\ UNCHANGED <<driverVars, ledger>>

Cover ==
    /\ \E symbol \in SubscribedSymbols(self), price \in Prices, volume \in CallVolumes,
          adv \in Advances(Reads(self, "cover")) :
            LET st == cover(Enter(adv), VtSymbol(symbol, Exchange), price, volume)
            IN  Leave("cover", st, st.ret)
    /\ UNCHANGED <<driverVars, ledger>>

CancelAll ==
    /\ Leave("cancel_all", cancel_all(Enter(<<>>)), "")
    /\ UNCHANGED <<driverVars, ledger>>



Next ==
    \/ OnInit
    \/ OnStart
    \/ OnStop
    \/ OnTick
    \/ OnBar
    \/ OnTrade
    \/ Buy
    \/ Sell
    \/ Short
    \/ Cover
    \/ CancelAll

Spec == Init /\ [][Next]_vars

----------------------------------------------------------------------------
(* BacktestingExample: run_double_ma_backtest and run_grid_backtest *)

Days == 0..MaxDays
Runs == {"double_ma", "grid"}

\* hasattr(obj, name), and obj.name = value on an object that may not have the attribute
HasAttr(obj, name) == name \in DOMAIN obj
SetAttr(obj, name, value) == (name :> value) @@ obj

\* datetime.strptime(day, "%Y-%m-%d"): midnight of the day, in minutes
Midnight(day) == day * MinutesPerDay

\* One call the driver makes on the strategy; trading is the flag as the call
\* starts, made the calls of buy, sell, short and cover the strategy made in it.
Event(call, dt, made) ==
    [call |-> call, datetime |-> dt, trading |-> self.trading, made |-> made]
NoDatetime == 0 - 1

BacktestStrategy(run) ==
    IF run = "double_ma"
    THEN DoubleMaStrategy_init("DMA_BACKTEST", BtcOnly, 10, 20, 1)
    ELSE GridStrategy_init("GRID_BACKTEST", BtcOnly, 100, 5, 1)

\* The locals of generate_sample_bars as its loop is entered.
generate_sample_bars_enter(start) ==
    [bars |-> <<>>, current_dt |-> Midnight(start), base_price |-> 50000, i |-> 0]

\* One pass of the loop that stamps every bar with the time of the one before
\* it (the first with its own).
generate_sample_bars_step_stale(g, oscillating) ==
    LET i == g.i
        trend == IF (i % 100) < 50 THEN 10 ELSE 0 - 10
        noise == ((i % 17) - 8) * 5
        price_change == IF oscillating THEN 200 * ((i % 10) - 5) ELSE trend + noise
        close == g.base_price + price_change
        stamp == IF i = 0 THEN g.current_dt ELSE g.current_dt - 1
    IN  [bars |-> Append(g.bars, Bar("BTCUSDT", stamp, close, 100 + (i % 50))),
         current_dt |-> g.current_dt + 1,
         base_price |-> close,
         i |-> i + 1]

\* One pass of the loop of generate_sample_bars.
generate_sample_bars_step(g, oscillating) ==
    LET i == g.i
        trend == IF (i % 100) < 50 THEN 10 ELSE 0 - 10
        noise == ((i % 17) - 8) * 5
        price_change == IF oscillating THEN 200 * ((i % 10) - 5) ELSE trend + noise
        close == g.base_price + price_change
    IN  [bars |-> Append(g.bars, Bar("BTCUSDT", g.current_dt, close, 100 + (i % 50))),
         current_dt |-> g.current_dt + 1,
         base_price |-> close,
         i |-> i + 1]

calculate_simple_stats(strategy) ==
    [total_days |-> IF HasAttr(strategy, "bars") THEN Len(strategy.bars) ELSE 0,
     total_bars |-> IF HasAttr(strategy, "bars") THEN Len(strategy.bars) ELSE 0,
     fast_ma |-> IF HasAttr(strategy, "fast_ma") THEN strategy.fast_ma ELSE Zero,
     slow_ma |-> IF HasAttr(strategy, "slow_ma") THEN strategy.slow_ma ELSE Zero,
     position |-> IF strategy.vt_symbols # <<>>
                  THEN get_pos(strategy, strategy.vt_symbols[1]) ELSE 0]

InitBacktest ==
    /\ \E run \in Runs, start \in Days, end \in Days :
        /\ Constructed(BacktestStrategy(run))
        /\ params = [run |-> run, start |-> start, end |-> end, oscillating |-> (run = "grid")]
        /\ gen = generate_sample_bars_enter(start)
    /\ pc = "generate"
    /\ idx = 0
    /\ events = <<>>
    /\ stats = NoStats

GenerateBar ==
    /\ pc = "generate"
    /\ gen.current_dt <= Midnight(params.end)
    /\ gen' = generate_sample_bars_step(gen, params.oscillating)
    /\ UNCHANGED <<strategyVars, ledger, trail, book, pc, params, idx, events, stats>>

GenerateReturn ==
    /\ pc = "generate"
    /\ ~(gen.current_dt <= Midnight(params.end))
    /\ pc' = "on_init"
    /\ UNCHANGED <<strategyVars, ledger, trail, book, params, gen, idx, events, stats>>

CallOnInit ==
    /\ pc = "on_init"
    /\ Leave("on_init", on_init(Enter(<<>>)), "")
    /\ events' = Append(events, Event("on_init", NoDatetime, submitted'))
    /\ pc' = "on_start"
    /\ UNCHANGED <<ledger, trail, book, params, gen, idx, stats>>

CallOnStart ==
    /\ pc = "on_start"
    /\ Leave("on_start", on_start(Enter(<<>>)), "")
    /\ events' = Append(events, Event("on_start", NoDatetime, submitted'))
    /\ pc' = "run_simplified_backtest"
    /\ UNCHANGED <<ledger, trail, book, params, gen, idx, stats>>

\* run_simplified_backtest: strategy.bars = []
LoadBars ==
    /\ pc = "run_simplified_backtest"
    /\ self' = SetAttr(self, "bars", <<>>)
    /\ idx' = 0
    /\ pc' = "replay"
    /\ UNCHANGED <<clock, orderids, op, ret, exc, sent, submitted, cancels, started, trail, book,
                   ledger, params, gen, events, stats>>

\* A pass of the loop that fills the first order of the bar against the bar
\* itself and delivers the trade before the pass ends.
DispatchBar_fills_at_once ==
    /\ pc = "replay"
    /\ idx < Len(gen.bars)
    /\ LET bar == gen.bars[idx + 1]
       IN  /\ \E adv \in Advances(Reads(self, "on_bar")) :
                 LET st == on_bar(Enter(adv), bar)
                     trade == Trade(bar.symbol, st.sent[1].direction, st.sent[1].offset,
                                    bar.close, st.sent[1].volume)
                 IN  IF st.sent = <<>>
                     THEN Leave("on_bar", st, "") /\ ledger' = ledger
                     ELSE Leave("on_bar", on_trade(st, trade), "")
                          /\ ledger' = Booked(ledger, trade)
           /\ events' = Append(events, Event("on_bar", bar.datetime, submitted'))
    /\ idx' = idx + 1
    /\ UNCHANGED <<trail, book, pc, params, gen, stats>>

\* run_simplified_backtest: one pass of `for bar in bars`
DispatchBar ==
    /\ pc = "replay"
    /\ idx < Len(gen.bars)
    /\ LET bar == gen.bars[idx + 1]
       IN  /\ \E adv \in Advances(Reads(self, "on_bar")) :
                 Leave("on_bar", on_bar(Enter(adv), bar), "")
           /\ events' = Append(events, Event("on_bar", bar.datetime, submitted'))
    /\ idx' = idx + 1
    /\ UNCHANGED <<ledger, trail, book, pc, params, gen, stats>>

CalculateStats ==
    /\ pc = "replay"
    /\ idx = Len(gen.bars)
    /\ stats' = calculate_simple_stats(self)
    /\ events' = Append(events, Event("calculate_simple_stats", NoDatetime, <<>>))
    /\ pc' = "on_stop"
    /\ UNCHANGED <<strategyVars, ledger, trail, book, params, gen, idx>>

CallOnStop ==
    /\ pc = "on_stop"
    /\ Leave("on_stop", on_stop(Enter(<<>>)), "")
    /\ events' = Append(events, Event("on_stop", NoDatetime, submitted'))
    /\ pc' = "done"
    /\ UNCHANGED <<ledger, trail, book, params, gen, idx, stats>>

NextBacktest ==
    \/ GenerateBar
    \/ GenerateReturn
    \/ CallOnInit
    \/ CallOnStart
    \/ LoadBars
    \/ DispatchBar
    \/ CalculateStats
    \/ CallOnStop

SpecBacktest == InitBacktest /\ [][NextBacktest]_vars

----------------------------------------------------------------------------
(* A run over a series the caller supplies: run_simplified_backtest takes    *)
(* any list of bars, in any order of timestamps, the empty list included.   *)

Timestamps == 0..(MaxBars - 1)

ReplayBars ==
    UNION {[1..n -> {Bar("BTCUSDT", dt, close, 0) : dt \in Timestamps, close \in Prices}] :
             n \in 0..MaxBars}

ReplayStrategies ==
    {DoubleMaStrategy_init("DMA_BTC", BtcOnly, SmallFast, SmallSlow, 1),
     GridStrategy_init("GRID_BTC", BtcOnly, 1, SmallGrid, 1)}

InitReplay ==
    /\ \E s \in ReplayStrategies : Constructed(s)
    /\ \E bars \in ReplayBars : gen = [NoGen EXCEPT !.bars = bars]
    /\ params = [NoParams EXCEPT !.run = "replay"]
    /\ pc = "on_init"
    /\ idx = 0
    /\ events = <<>>
    /\ stats = NoStats

NextReplay ==
    \/ CallOnInit
    \/ CallOnStart
    \/ LoadBars
    \/ DispatchBar
    \/ CalculateStats
    \/ CallOnStop

SpecReplay == InitReplay /\ [][NextReplay]_vars

----------------------------------------------------------------------------
(* A DoubleMaStrategy in an engine that feeds it bars and trades.            *)

Closes == 1..MaxClose

InitDoubleMa ==
    /\ Constructed(DoubleMaStrategy_init("DMA_BTC", BtcOnly, SmallFast, SmallSlow, 1))
    /\ pc = "engine"
    /\ params = NoParams
    /\ gen = NoGen
    /\ idx = 0
    /\ events = <<>>
    /\ stats = NoStats

BarArrives ==
    /\ \E close \in Closes, adv \in Advances(Reads(self, "on_bar")) :
            LET st == on_bar(Enter(adv), Bar("BTCUSDT", 0, close, 0))
            IN  /\ Leave("on_bar", st, "")
                /\ trail' = Trailed(trail, "on_bar", self, st)
    /\ UNCHANGED <<pc, params, gen, idx, events, stats, book, ledger>>

NextDoubleMa ==
    \/ OnInit
    \/ OnStart
    \/ OnStop
    \/ BarArrives
    \/ OnTrade

SpecDoubleMa == InitDoubleMa /\ [][NextDoubleMa]_vars

----------------------------------------------------------------------------
(* A strategy whose accepted orders are followed: every trade delivered is  *)
(* the fill of an order the strategy has sent, at the order's price and for *)
(* its whole volume.  _send_order and cancel_order tell the engine nothing  *)
(* (the calls are comments in the source), so the book is kept here.        *)

\* The book with the orders a call has sent added: not filled, not cancelled.
Entered(b, orders) ==
    b \o [k \in DOMAIN orders |-> [fill |-> 0, cancel |-> ""] @@ orders[k]]

Filled(b) == {k \in DOMAIN b : b[k].fill > 0}

\* the price of the ticks and of the orders placed from outside
BookPrices == {MaxPrice}
\* the volumes of the orders placed from outside: order_size of the grid and more
BookVolumes == 1..(MaxVolume + 1)

FillStrategies ==
    {CtaTemplate_init("TPL", BtcOnly, ty) : ty \in StrategyTypes}
    \cup {GridStrategy_init("GRID_BTC", BtcOnly, 1, 1, 1)}

InitFills ==
    /\ \E s \in FillStrategies : Constructed(s)
    /\ pc = "engine"
    /\ params = NoParams
    /\ gen = NoGen
    /\ idx = 0
    /\ events = <<>>
    /\ stats = NoStats

\* name(vt_symbol, price, volume) for the four order methods
OrderCall(name, st, vt_symbol, price, volume) ==
    CASE name = "buy" -> buy(st, vt_symbol, price, volume)
      [] name = "sell" -> sell(st, vt_symbol, price, volume)
      [] name = "short" -> short(st, vt_symbol, price, volume)
      [] name = "cover" -> cover(st, vt_symbol, price, volume)

Place ==
    /\ \E name \in OrderCalls, price \in BookPrices, volume \in BookVolumes :
          \E adv \in Advances(Reads(self, name)) :
            LET st == OrderCall(name, Enter(adv), VtSymbol("BTCUSDT", Exchange), price, volume)
            IN  /\ Len(book) + Len(st.sent) <= MaxBook
                /\ Leave(name, st, st.ret)
                /\ book' = Entered(book, st.sent)
    /\ UNCHANGED <<pc, params, gen, idx, events, stats, trail, ledger>>

TickArrives ==
    /\ \E price \in BookPrices, adv \in Advances(Reads(self, "on_tick")) :
            LET st == on_tick(Enter(adv), Tick("BTCUSDT", price))
            IN  /\ Len(book) + Len(st.sent) <= MaxBook
                /\ Leave("on_tick", st, "")
                /\ book' = Entered(book, st.sent)
    /\ UNCHANGED <<pc, params, gen, idx, events, stats, trail, ledger>>

\* The engine fills a pending order and delivers the trade.
Fill ==
    /\ \E k \in DOMAIN book, adv \in Advances(Reads(self, "on_trade")) :
            LET order == book[k]
                trade == Trade("BTCUSDT", order.direction, order.offset,
                               order.price, order.volume)
                st == on_trade(Enter(adv), trade)
            IN  /\ order.fill = 0
                /\ Len(book) + Len(st.sent) <= MaxBook
                /\ Leave("on_trade", st, "")
                /\ book' = Entered([book EXCEPT ![k].fill = Cardinality(Filled(book)) + 1],
                                   st.sent)
                /\ ledger' = Booked(ledger, trade)
    /\ UNCHANGED <<pc, params, gen, idx, events, stats, trail>>

\* cancel_order on the id of an order of the book; the book notes on every
\* order of that id whether the call came before its fill or after it.
Cancel ==
    /\ \E k \in DOMAIN book :
            LET st == cancel_order(Enter(<<>>), book[k].orderid)
            IN  /\ book[k].cancel = ""
                /\ Leave("cancel_order", st, st.ret)
                /\ book' = [j \in DOMAIN book |->
                              IF book[j].orderid = book[k].orderid /\ book[j].cancel = ""
                              THEN [book[j] EXCEPT !.cancel = IF book[j].fill > 0
                                                             THEN "late" ELSE "pending"]
                              ELSE book[j]]
    /\ UNCHANGED <<pc, params, gen, idx, events, stats, trail, ledger>>

NextFills ==
    \/ OnStart
    \/ OnStop
    \/ Place
    \/ TickArrives
    \/ Fill
    \/ Cancel

SpecFills == InitFills /\ [][NextFills]_vars

----------------------------------------------------------------------------
(* The orders of a futures strategy that is trading, and their fills.  The  *)
(* receiver is the template as the on_start of a subclass leaves it (both   *)
(* subclasses in the source set trading there; CtaTemplate.on_start does    *)
(* not).                                                                    *)

InitRoundTrip ==
    /\ self = [CtaTemplate_init("TPL", BtcOnly, "futures") EXCEPT !.trading = TRUE]
    /\ ledger = [v \in {VtSymbol("BTCUSDT", Exchange)} |-> 0]
    /\ started = TRUE
    /\ clock = 0
    /\ orderids = {}
    /\ op = "on_start"
    /\ ret = ""
    /\ exc = ""
    /\ sent = <<>>
    /\ submitted = <<>>
    /\ cancels = <<>>
    /\ trail = NoTrail
    /\ book = <<>>
    /\ pc = "engine"
    /\ params = NoParams
    /\ gen = NoGen
    /\ idx = 0
    /\ events = <<>>
    /\ stats = NoStats

NextRoundTrip ==
    \/ Place
    \/ Fill

SpecRoundTrip == InitRoundTrip /\ [][NextRoundTrip]_vars

----------------------------------------------------------------------------
(* The order methods as functions of the object they are called on: the     *)
(* object is any strategy a subclass or an engine can hand them, trading or *)
(* not, spot or futures.                                                    *)

InitOrderCalls ==
    /\ \E s \in EngineStrategies, t \in BOOLEAN :
        /\ self = [s EXCEPT !.trading = t]
        /\ ledger = [v \in DOMAIN s.positions |-> 0]
        /\ started = t
    /\ trail = NoTrail
    /\ book = <<>>
    /\ clock = 0
    /\ orderids = {}
    /\ op = "__init__"
    /\ ret = ""
    /\ exc = ""
    /\ sent = <<>>
    /\ submitted = <<>>
    /\ cancels = <<>>
    /\ pc = "engine"
    /\ params = NoParams
    /\ gen = NoGen
    /\ idx = 0
    /\ events = <<>>
    /\ stats = NoStats

NextOrderCalls ==
    \/ Buy
    \/ Sell
    \/ Short
    \/ Cover

SpecOrderCalls == InitOrderCalls /\ [][NextOrderCalls]_vars

----------------------------------------------------------------------------
(* Properties *)

\* C1: a step that starts with trading = false sends no order; when it is a
\* call of buy, sell, short or cover it returns the empty order id and leaves
\* the strategy object (positions included), the clock and the issued ids as
\* they were.  This holds for the objects of all three classes.
C1_RejectedWhileNotTrading ==
    [][ ~self.trading =>
          /\ sent' = <<>>
          /\ orderids' = orderids
          /\ (op' \in OrderCalls => ret' = "" /\ self' = self /\ clock' = clock) ]_vars

\* C1 witness: a grid strategy that has traded and was stopped; sell was then
\* called and rejected.
C1_Witness ==
    /\ self.cls = "GridStrategy"
    /\ ~self.trading
    /\ orderids # {}
    /\ op = "sell"
    /\ ret = ""
    /\ sent = <<>>

\* C2: trading is true right after on_start returns and false right after
\* on_stop returns, for every class, CtaTemplate included.
C2_StartStopSetTrading ==
    /\ (op = "on_start" => self.trading)
    /\ (op = "on_stop" => ~self.trading)

\* C3: the position of every subscribed symbol is the signed sum of the
\* volumes of the trades delivered for it (the ledger), and a step that is not
\* on_trade leaves every position as it was.
C3_PositionIsSignedSum ==
    [][ /\ \A v \in DOMAIN self'.positions : get_pos(self', v) = ledger'[v]
        /\ (op' # "on_trade" => self'.positions = self.positions) ]_vars

\* C3 witness: after on_trade calls the two subscribed symbols hold different
\* positions, one short.
C3_Witness ==
    /\ op = "on_trade"
    /\ exc = ""
    /\ get_pos(self, VtSymbol("BTCUSDT", Exchange)) = 0 - 1
    /\ get_pos(self, VtSymbol("ETHUSDT", Exchange)) = 1

\* C4: on a spot strategy short and cover return the empty id and send
\* nothing, trading or not; on a futures strategy that is trading short sends
\* one (short, open) order, cover one (long, close) order, and each returns
\* the id of the order it sent.
C4_ShortCoverBySpotOrFutures ==
    /\ (op \in {"short", "cover"} /\ self.strategy_type = "spot")
         => (ret = "" /\ sent = <<>>)
    /\ (op \in {"short", "cover"} /\ self.strategy_type = "futures" /\ self.trading)
         => /\ Len(sent) = 1
            /\ sent[1].direction = (IF op = "short" THEN "short" ELSE "long")
            /\ sent[1].offset = (IF op = "short" THEN "open" ELSE "close")
            /\ ret = sent[1].orderid
            /\ ret # ""

\* C4 witness: a trading futures strategy has sent a cover order.
C4_Witness ==
    /\ op = "cover"
    /\ self.strategy_type = "futures"
    /\ self.trading
    /\ ret # ""

\* C5: no order is sent with a volume that is not positive: a submission
\* with such a volume returns no order id.
C5_NonPositiveVolumeRejected ==
    \A k \in DOMAIN sent : sent[k].volume > 0

\* C6: the order ids a step returns are not empty, differ from one another
\* and from every id returned before.
C6_OrderIdsUnique ==
    [][ \A k \in DOMAIN sent' :
          /\ sent'[k].orderid # ""
          /\ sent'[k].orderid \notin orderids
          /\ \A j \in DOMAIN sent' : j # k => sent'[j].orderid # sent'[k].orderid ]_vars

\* C7: on a grid strategy, on_tick and on_trade that start with trading =
\* false leave buy_orders and sell_orders as they were, and every id the two
\* maps hold is a non-empty id that _send_order returned.
C7_GridMapsHoldAcceptedIds ==
    [][ self.cls = "GridStrategy" =>
          /\ (~self.trading /\ op' \in {"on_tick", "on_trade"}) =>
                (self'.buy_orders = self.buy_orders /\ self'.sell_orders = self.sell_orders)
          /\ \A k \in DOMAIN self'.buy_orders :
                self'.buy_orders[k] # "" /\ self'.buy_orders[k] \in orderids'
          /\ \A k \in DOMAIN self'.sell_orders :
                self'.sell_orders[k] # "" /\ self'.sell_orders[k] \in orderids' ]_vars

\* C7 witness: a stopped grid strategy that holds grid orders from before has
\* processed a tick.
C7_Witness ==
    /\ self.cls = "GridStrategy"
    /\ ~self.trading
    /\ op = "on_tick"
    /\ self.buy_orders # EmptyDict
    /\ self.sell_orders # EmptyDict

\* The calls the driver has made, by name.
Calls == [k \in DOMAIN events |-> events[k].call]

\* The calls of a complete run over n bars: on_init, on_start, n times
\* on_bar, calculate_simple_stats, on_stop.
Lifecycle(n) ==
    [k \in 1..(n + 4) |->
        CASE k = 1 -> "on_init"
          [] k = 2 -> "on_start"
          [] k = n + 3 -> "calculate_simple_stats"
          [] k = n + 4 -> "on_stop"
          [] OTHER -> "on_bar"]

IsPrefix(a, b) == Len(a) <= Len(b) /\ \A k \in DOMAIN a : a[k] = b[k]

\* C8: the calls of a backtest run are on_init once, then on_start, then one
\* on_bar per bar, then the statistics, then on_stop once; every on_bar is
\* made while trading is true; a finished run has made them all.
C8_LifecycleOrder ==
    LET calls == Calls
        all == Lifecycle(Len(gen.bars))
    IN  /\ IsPrefix(calls, all)
        /\ \A k \in DOMAIN events : events[k].call = "on_bar" => events[k].trading
        /\ pc = "done" => Len(calls) = Len(all)

\* C8 witness: a finished run that dispatched bars.
C8_Witness ==
    /\ pc = "done"
    /\ Len(gen.bars) > 0
    /\ ~self.trading

\* C9: until on_start is first called, trading is false, no order id has been
\* issued, and every order call has returned the empty id.
C9_NoOrderBeforeStart ==
    ~started =>
        /\ ~self.trading
        /\ orderids = {}
        /\ sent = <<>>
        /\ (op \in OrderCalls => ret = "")

\* C9 witness: on_init has run, on_start has not, and buy was called.
C9_Witness ==
    /\ ~started
    /\ self.inited
    /\ op = "buy"
    /\ ret = ""

\* The on_bar calls made so far.
Dispatched == SelectSeq(events, LAMBDA e : e.call = "on_bar")

\* C10: the bars dispatched so far are the first bars of the loaded series,
\* each once and in the order of the series, with strictly increasing
\* timestamps; after the replay every loaded bar has been dispatched.
C10_EachBarOnceInTimeOrder ==
    LET d == Dispatched
    IN  /\ Len(d) <= Len(gen.bars)
        /\ \A k \in DOMAIN d : d[k].datetime = gen.bars[k].datetime
        /\ \A k \in 1..(Len(d) - 1) : d[k].datetime < d[k + 1].datetime
        /\ pc \in {"on_stop", "done"} => Len(d) = Len(gen.bars)

\* C10 witness: the replay is over and has dispatched more than one bar.
C10_Witness ==
    /\ pc = "on_stop"
    /\ Len(Dispatched) > 1

\* C14: every bar generate_sample_bars has produced, trending or oscillating,
\* has low <= open <= high and low <= close <= high, and each bar's timestamp
\* is strictly later than that of the bar before it.
C14_GeneratedBarsWellFormed ==
    LET bars == gen.bars
    IN  /\ \A k \in DOMAIN bars :
              /\ bars[k].low <= bars[k].open /\ bars[k].open <= bars[k].high
              /\ bars[k].low <= bars[k].close /\ bars[k].close <= bars[k].high
        /\ \A k \in 1..(Len(bars) - 1) : bars[k].datetime < bars[k + 1].datetime

\* C14 witness: generate_sample_bars has returned an oscillating series of a
\* whole day and more.
C14_Witness ==
    /\ pc = "on_init"
    /\ params.oscillating
    /\ Len(gen.bars) > MinutesPerDay

\* C15: every bar of a generated series, trending or oscillating, over any
\* date range, has open, high, low and close above zero.
C15_GeneratedPricesPositive ==
    LET bars == gen.bars
    IN  \A k \in DOMAIN bars :
            bars[k].open > 0 /\ bars[k].high > 0 /\ bars[k].low > 0 /\ bars[k].close > 0
\* The index of the last bar before the first one whose timestamp is not
\* later than its predecessor's; the length of a strictly increasing series.
ValidPrefix(bars) ==
    LET bad == {k \in 1..(Len(bars) - 1) : bars[k].datetime >= bars[k + 1].datetime}
    IN  IF bad = {} THEN Len(bars) ELSE CHOOSE k \in bad : \A j \in bad : k <= j

\* C11: a run over an empty series, or over one whose timestamps are not
\* strictly increasing, is aborted: no bar from the first offending one on is
\* dispatched and no statistics are produced.
C11_BadSeriesAborted ==
    (gen.bars = <<>> \/ ValidPrefix(gen.bars) < Len(gen.bars)) =>
        /\ Len(Dispatched) <= ValidPrefix(gen.bars)
        /\ \A k \in DOMAIN events : events[k].call # "calculate_simple_stats"
        /\ stats = NoStats

\* The events of the run in which the strategy called an order method.
Submissions == SelectSeq(events, LAMBDA e : e.made # <<>>)

\* C12: after the replay of a series with strictly increasing closes, in
\* which the strategy has submitted one buy of 1 unit and nothing else, the
\* position reported for the symbol is 1.
C12_BuyAndHoldEndsLong ==
    LET bars == gen.bars
        s == Submissions
    IN  ( /\ pc \in {"on_stop", "done"}
          /\ \A k \in 1..(Len(bars) - 1) : bars[k].close < bars[k + 1].close
          /\ Len(s) = 1
          /\ s[1].call = "on_bar"
          /\ Len(s[1].made) = 1
          /\ s[1].made[1].name = "buy"
          /\ s[1].made[1].volume = 1 )
        => stats.position = 1

\* C16: no step of a backtest run is an on_trade callback, and the dispatch
\* of a bar leaves every position and the ledger of delivered trades as they
\* were: an order submitted while bar t is dispatched has no trade in bar t.
C16_NoTradeInSubmittingBar ==
    [][ /\ op' # "on_trade"
        /\ (op' = "on_bar" => self'.positions = self.positions /\ ledger' = ledger) ]_vars

\* C16 witness: the strategy submitted an order in the dispatch of a bar that
\* was accepted, and bars after it have been dispatched.
C16_Witness ==
    /\ op = "on_bar"
    /\ orderids # {}
    /\ submitted = <<>>
    /\ get_pos(self, VtSymbol("BTCUSDT", Exchange)) = 0
\* C19: an on_bar of a DoubleMaStrategy calls at most one order method.  It
\* calls buy(fixed_size at the bar's close) exactly when fast_ma > slow_ma,
\* ma_trend was not 1 before the bar and the position is <= 0; it calls
\* sell(abs(pos) at the bar's close) exactly when fast_ma < slow_ma, ma_trend
\* was not -1 before the bar and the position is > 0; a call is made only on
\* a bar that changes ma_trend, and with fast_ma = slow_ma ma_trend stays and
\* no call is made.
C19_OneOrderOnTrendFlip ==
    [][ (op' = "on_bar" /\ self.cls = "DoubleMaStrategy") =>
          LET bar == self'.bars[Len(self'.bars)]
              vt_symbol == VtSymbol(bar.symbol, bar.exchange)
              pos == get_pos(self, vt_symbol)
              above == Greater(self'.fast_ma, self'.slow_ma)
              below == Less(self'.fast_ma, self'.slow_ma)
              aBuy == [name |-> "buy", vt_symbol |-> vt_symbol,
                       price |-> bar.close, volume |-> self.fixed_size, pos |-> pos]
              aSell == [name |-> "sell", vt_symbol |-> vt_symbol,
                        price |-> bar.close, volume |-> abs(pos), pos |-> pos]
          IN  /\ Len(submitted') <= 1
              /\ submitted' = <<aBuy>> <=> (above /\ self.ma_trend # 1 /\ pos <= 0)
              /\ submitted' = <<aSell>> <=> (below /\ self.ma_trend # 0 - 1 /\ pos > 0)
              /\ submitted' # <<>> => (submitted' = <<aBuy>> \/ submitted' = <<aSell>>)
              /\ submitted' # <<>> => self'.ma_trend # self.ma_trend
              /\ (~above /\ ~below) => (self'.ma_trend = self.ma_trend /\ submitted' = <<>>) ]_vars

\* C19 witness: an on_bar has sold the whole position and the order was accepted.
C19_Witness ==
    /\ self.cls = "DoubleMaStrategy"
    /\ op = "on_bar"
    /\ Len(submitted) = 1
    /\ submitted[1].name = "sell"
    /\ Len(sent) = 1

\* C20: when an on_bar of a DoubleMaStrategy calls buy (sell), then since the
\* latest on_bar that called buy (sell) before it, if there is one, an on_bar
\* with fast_ma < slow_ma has set ma_trend to -1 (with fast_ma > slow_ma, to
\* 1); and the on_bar right before it did not call the same method.
C20_SignalsAlternate ==
    [][ (op' = "on_bar" /\ self.cls = "DoubleMaStrategy" /\ submitted' # <<>>) =>
          /\ (trail.last = submitted'[1].name => trail.flipped)
          /\ trail.prev # submitted'[1].name ]_vars

\* C20 witness: a second buy, after a buy and a bar that turned the trend down.
C20_Witness ==
    /\ self.cls = "DoubleMaStrategy"
    /\ op = "on_bar"
    /\ submitted # <<>>
    /\ submitted[1].name = "buy"
    /\ trail.again
    /\ self.ma_trend = 1
    /\ orderids # {}
\* C13: no order is filled after cancel_order was called on it while it was
\* pending, and cancel_order called with the id of an order that is already
\* filled (of no pending order) returns AlreadyFilled.
C13_CancelTakesEffect ==
    [][ /\ \A k \in DOMAIN book :
              (book[k].fill = 0 /\ book'[k].fill > 0) => book[k].cancel # "pending"
        /\ (op' = "cancel_order"
              /\ \A k \in DOMAIN book : book'[k].cancel # book[k].cancel => book[k].fill > 0)
             => ret' = "AlreadyFilled" ]_vars

\* C17: the position of a spot strategy is never negative for any symbol,
\* whatever orders of it were accepted and filled.
C17_SpotPositionNeverNegative ==
    self.strategy_type = "spot" =>
        \A v \in DOMAIN self.positions : get_pos(self, v) >= 0

\* The order was sent by the method `name` of a futures strategy.
SentBy(order, name) ==
    CASE name = "buy" -> order.direction = "long" /\ order.offset = "open"
      [] name = "sell" -> order.direction = "short" /\ order.offset = "close"
      [] name = "short" -> order.direction = "short" /\ order.offset = "open"
      [] name = "cover" -> order.direction = "long" /\ order.offset = "close"

\* C18: on a futures strategy that has sent two orders, a buy and then a
\* sell of the same volume (or a short and then a cover), once the first and
\* then the second are filled the position is what it was before: 0.
C18_RoundTripRestoresPosition ==
    ( /\ self.strategy_type = "futures"
      /\ Len(book) = 2
      /\ book[1].fill = 1
      /\ book[2].fill = 2
      /\ book[1].volume = book[2].volume
      /\ \/ SentBy(book[1], "buy") /\ SentBy(book[2], "sell")
         \/ SentBy(book[1], "short") /\ SentBy(book[2], "cover") )
    => get_pos(self, VtSymbol("BTCUSDT", Exchange)) = 0

----------------------------------------------------------------------------
\* C21: while a DoubleMaStrategy holds fewer than slow_window bars (it drops
\* none before it holds more than 2 * slow_window, so these are all the bars
\* it has received), fast_ma, slow_ma and ma_trend have the values __init__
\* gave them, the step that led here called neither buy nor sell, and no
\* order has ever been sent.
C21_NothingBeforeSlowWindowBars ==
    (self.cls = "DoubleMaStrategy" /\ Len(self.bars) < self.slow_window) =>
        /\ self.fast_ma = Zero
        /\ self.slow_ma = Zero
        /\ self.ma_trend = 0
        /\ submitted = <<>>
        /\ sent = <<>>
        /\ orderids = {}

\* C21 witness: a trading strategy has taken a bar and is one bar short of
\* slow_window.
C21_Witness ==
    /\ self.cls = "DoubleMaStrategy"
    /\ op = "on_bar"
    /\ self.trading
    /\ Len(self.bars) >= 1
    /\ Len(self.bars) = self.slow_window - 1

----------------------------------------------------------------------------
\* C22: in a backtest of a DoubleMaStrategy, once the replay has begun the
\* history self.bars holds at most 2 * slow_window bars, and they are the
\* last bars dispatched to on_bar so far, in the order they were dispatched:
\* all of them while there are no more than 2 * slow_window, the latest
\* 2 * slow_window afterwards.
C22_HistoryIsLatestBars ==
    (self.cls = "DoubleMaStrategy" /\ pc \in {"replay", "on_stop", "done"}) =>
        /\ Len(self.bars) <= 2 * self.slow_window
        /\ self.bars = LastN(SubSeq(gen.bars, 1, idx), 2 * self.slow_window)

\* C22 witness: more than 2 * slow_window bars have been dispatched and the
\* history is full, so the oldest ones have been dropped.
C22_Witness ==
    /\ self.cls = "DoubleMaStrategy"
    /\ pc = "replay"
    /\ op = "on_bar"
    /\ idx > 2 * self.slow_window + 1
    /\ Len(self.bars) = 2 * self.slow_window

----------------------------------------------------------------------------
\* C23: an on_tick of a GridStrategy that is trading leaves, for the price p
\* of the tick and every i in 1..grid_num, an entry of buy_orders under
\* str(p - i * grid_size) and an entry of sell_orders under
\* str(p + i * grid_size); and when the call before it was an on_tick of the
\* same price, it calls neither buy nor sell, sends no order and leaves both
\* maps as they were.
C23_GridLevelsPlacedOnce ==
    [][ (op' = "on_tick" /\ self.cls = "GridStrategy" /\ self.trading) =>
          LET p == self'.last_price
              levels == 1..self.grid_num
          IN  /\ \A i \in levels :
                    /\ DictHas(self'.buy_orders, str(p - i * self.grid_size))
                    /\ DictHas(self'.sell_orders, str(p + i * self.grid_size))
              /\ (op = "on_tick" /\ self.last_price = p) =>
                    /\ submitted' = <<>>
                    /\ sent' = <<>>
                    /\ self'.buy_orders = self.buy_orders
                    /\ self'.sell_orders = self.sell_orders ]_vars

\* C23 witness: a trading GridStrategy has taken a tick at a price whose
\* levels were all placed already, and has called neither buy nor sell.
C23_Witness ==
    /\ self.cls = "GridStrategy"
    /\ op = "on_tick"
    /\ self.trading
    /\ submitted = <<>>
    /\ \A i \in 1..self.grid_num :
          /\ DictHas(self.buy_orders, str(self.last_price - i * self.grid_size))
          /\ DictHas(self.sell_orders, str(self.last_price + i * self.grid_size))

----------------------------------------------------------------------------
\* C24: when the fill of one of its orders is delivered to a GridStrategy
\* that is trading, on_trade adds the signed volume of the trade to the
\* position and then makes exactly one order call, which is accepted: after
\* a long fill, sell(trade price + grid_size, trade volume); after a short
\* fill, buy(trade price - grid_size, trade volume).  The call is made with
\* the position already updated.
C24_ReverseOrderAfterFill ==
    [][ (op' = "on_trade" /\ self.cls = "GridStrategy" /\ self.trading) =>
          \E k \in DOMAIN book :
            LET order == book[k]
                v == order.vt_symbol
                signed == IF (order.direction = "long") = (order.offset = "open")
                          THEN order.volume ELSE 0 - order.volume
                reverse == IF order.direction = "long"
                           THEN [name |-> "sell", vt_symbol |-> v,
                                 price |-> order.price + self.grid_size,
                                 volume |-> order.volume,
                                 pos |-> get_pos(self, v) + signed]
                           ELSE [name |-> "buy", vt_symbol |-> v,
                                 price |-> order.price - self.grid_size,
                                 volume |-> order.volume,
                                 pos |-> get_pos(self, v) + signed]
            IN  /\ order.fill = 0
                /\ book'[k].fill > 0
                /\ get_pos(self', v) = get_pos(self, v) + signed
                /\ submitted' = <<reverse>>
                /\ Len(sent') = 1
                /\ sent'[1].price = reverse.price
                /\ sent'[1].volume = reverse.volume
                /\ sent'[1].direction = (IF order.direction = "long" THEN "short" ELSE "long") ]_vars

\* C24 witness: a trading GridStrategy has had the fill of a sell order
\* delivered and has placed a buy order below it.
C24_Witness ==
    /\ self.cls = "GridStrategy"
    /\ op = "on_trade"
    /\ self.trading
    /\ Len(submitted) = 1
    /\ submitted[1].name = "buy"
    /\ Len(book) = 2
    /\ book[1].fill = 1
    /\ book[1].direction = "short"
    /\ book[2].direction = "long"
    /\ book[2].price = book[1].price - self.grid_size

----------------------------------------------------------------------------
\* C25: the on_stop of a GridStrategy calls cancel_all with the trading flag
\* as on_stop found it, so the request of a strategy that is trading gets
\* past the guard of cancel_all, and leaves the flag false; and while the
\* flag is false every step but on_start leaves it false, sends no order and
\* issues no order id.
C25_StopCancelsThenRejects ==
    [][ self.cls = "GridStrategy" =>
          /\ op' = "on_stop" =>
                /\ cancels' = (IF self.trading THEN <<"all">> ELSE <<>>)
                /\ ~self'.trading
          /\ (~self.trading /\ op' # "on_start") =>
                /\ ~self'.trading
                /\ sent' = <<>>
                /\ orderids' = orderids
                /\ (op' \in OrderCalls => ret' = "") ]_vars

\* C25 witness: a GridStrategy that has had orders accepted and has been
\* stopped since is called for an order and returns the empty id.
C25_Witness ==
    /\ self.cls = "GridStrategy"
    /\ ~self.trading
    /\ orderids # {}
    /\ op \in OrderCalls
    /\ submitted # <<>>
    /\ sent = <<>>
    /\ ret = ""

----------------------------------------------------------------------------
\* C26: of a GridStrategy, every entry of buy_orders and of sell_orders is
\* the id of an order of its side and of the price of its key that is not
\* filled; after an on_stop whose cancel_all got past the guard both maps are
\* empty; and every order sent in an on_tick or an on_trade is, when the call
\* ends, the entry of its price in the map of its side.
C26_MapsTrackPendingOrders ==
    self.cls = "GridStrategy" =>
        LET Pending(map, direction) ==
                \A key \in DOMAIN map :
                    \E k \in DOMAIN book :
                        /\ book[k].orderid = map[key]
                        /\ str(book[k].price) = key
                        /\ book[k].direction = direction
                        /\ book[k].fill = 0
            Tracked(order) ==
                LET map == IF order.direction = "long"
                           THEN self.buy_orders ELSE self.sell_orders
                IN  /\ DictHas(map, str(order.price))
                    /\ map[str(order.price)] = order.orderid
        IN  /\ Pending(self.buy_orders, "long")
            /\ Pending(self.sell_orders, "short")
            /\ (op = "on_stop" /\ cancels # <<>>) =>
                    (self.buy_orders = EmptyDict /\ self.sell_orders = EmptyDict)
            /\ op \in {"on_tick", "on_trade"} => \A j \in DOMAIN sent : Tracked(sent[j])

----------------------------------------------------------------------------
\* C27: a GridStrategy has at most grid_num keys in buy_orders and at most
\* grid_num keys in sell_orders, and no key is in both maps.
C27_GridMapsBounded ==
    self.cls = "GridStrategy" =>
        /\ Cardinality(DOMAIN self.buy_orders) <= self.grid_num
        /\ Cardinality(DOMAIN self.sell_orders) <= self.grid_num
        /\ DOMAIN self.buy_orders \cap DOMAIN self.sell_orders = {}

====
